---- MODULE Spec2Model ----
(***************************************************************************)
(* Blog-to-podcast agent (app.py): the Firecrawl content extractor, the    *)
(* scrape fallback, the two-node LangGraph pipeline, the ElevenLabs chunk  *)
(* assembly and the outcome shown to the user.                             *)
(***************************************************************************)
EXTENDS Integers, Sequences, FiniteSets, TLC

\* ------------------------------------------------------------------------
\* Bounds of the model
\* ------------------------------------------------------------------------

\* Total number of populated fields / non-record values in a scrape response.
MaxFields == 2

\* Longest list under `data` / `documents` in a scrape response.
MaxList == 2

\* Longest stream of chunks the TTS generator yields.
MaxChunks == 4

\* ------------------------------------------------------------------------
\* Python values.  Text is a sequence of one-character strings.
\*   t = "str"   : s is the text
\*   t = "bytes" : s is the bytes
\*   t = "int"   : s is the decimal digits
\*   t = "none"  : None
\*   t = "dict"  : items is the sequence of [k, v] entries, in insertion order
\*   t = "list"  : items is the sequence of elements
\* ------------------------------------------------------------------------

PyNone == [t |-> "none", s |-> <<>>, items |-> <<>>]

PyStr(s) == [t |-> "str", s |-> s, items |-> <<>>]

PyBytes(s) == [t |-> "bytes", s |-> s, items |-> <<>>]

PyInt(digits) == [t |-> "int", s |-> digits, items |-> <<>>]

PyDict(entries) == [t |-> "dict", s |-> <<>>, items |-> entries]

PyList(elems) == [t |-> "list", s |-> <<>>, items |-> elems]

Entry(k, v) == [k |-> k, v |-> v]

\* isinstance(v, dict) / isinstance(v, list) / isinstance(v, str)
IsDict(v) == v.t = "dict"

IsList(v) == v.t = "list"

IsStr(v) == v.t = "str"

\* key in d
HasKey(d, k) == \E i \in 1..Len(d.items) : d.items[i].k = k

\* d[key]
Lookup(d, k) == d.items[CHOOSE i \in 1..Len(d.items) : d.items[i].k = k].v

\* d.get(key): None when the key is absent
Get(d, k) == IF HasKey(d, k) THEN Lookup(d, k) ELSE PyNone

\* Python truthiness of the values that occur (None, str, bytes, int, dict, list)
Truthy(v) ==
    CASE v.t = "none" -> FALSE
      [] v.t \in {"str", "bytes"} -> v.s # <<>>
      [] v.t = "int" -> v.s # <<"0">>
      [] OTHER -> v.items # <<>>

\* str.strip(): whitespace removed at both ends
IsSpace(c) == c \in {" ", "\n", "\t"}

RECURSIVE LStrip(_)
LStrip(s) == IF s = <<>> THEN s
             ELSE IF IsSpace(Head(s)) THEN LStrip(Tail(s)) ELSE s

RECURSIVE RStrip(_)
RStrip(s) == IF s = <<>> THEN s
             ELSE IF IsSpace(s[Len(s)]) THEN RStrip(SubSeq(s, 1, Len(s) - 1)) ELSE s

Strip(s) == RStrip(LStrip(s))

\* ------------------------------------------------------------------------
\* str(doc): Python's str() of a value.  A str is itself; anything else is
\* its repr.  Key names and None are written as single tokens.
\* ------------------------------------------------------------------------

RECURSIVE Repr(_)
RECURSIVE ReprEntries(_, _)
RECURSIVE ReprElems(_, _)
Repr(v) ==
    CASE v.t = "none" -> <<"None">>
      [] v.t = "str" -> <<"'">> \o v.s \o <<"'">>
      [] v.t = "bytes" -> <<"b", "'">> \o v.s \o <<"'">>
      [] v.t = "int" -> v.s
      [] v.t = "dict" -> <<"{">> \o ReprEntries(v.items, 1) \o <<"}">>
      [] OTHER -> <<"[">> \o ReprElems(v.items, 1) \o <<"]">>

ReprEntries(es, i) ==
    IF i > Len(es) THEN <<>>
    ELSE (IF i > 1 THEN <<",", " ">> ELSE <<>>)
         \o <<"'", es[i].k, "'", ":", " ">> \o Repr(es[i].v)
         \o ReprEntries(es, i + 1)

ReprElems(es, i) ==
    IF i > Len(es) THEN <<>>
    ELSE (IF i > 1 THEN <<",", " ">> ELSE <<>>) \o Repr(es[i]) \o ReprElems(es, i + 1)

PyStrOf(v) == IF IsStr(v) THEN v.s ELSE Repr(v)

\* ------------------------------------------------------------------------
\* _extract_text_from_firecrawl
\* ------------------------------------------------------------------------

\* ("markdown", "content", "text", "pageContent")
FieldKeys == <<"markdown", "content", "text", "pageContent">>

\* Variant: the value is not trimmed before it is tested.
AcceptValNoStrip(val) == IsStr(val) /\ val.s # <<>>

\* isinstance(val, str) and val.strip()
AcceptVal(val) == IsStr(val) /\ Strip(val.s) # <<>>

\* for key in (...): if key in doc and isinstance(doc[key], str) and
\* doc[key].strip(): return doc[key]          (None: the loop found nothing)
RECURSIVE ProbeDirect(_, _)
ProbeDirect(doc, i) ==
    IF i > Len(FieldKeys) THEN PyNone
    ELSE IF HasKey(doc, FieldKeys[i]) /\ AcceptVal(Lookup(doc, FieldKeys[i]))
         THEN Lookup(doc, FieldKeys[i])
         ELSE ProbeDirect(doc, i + 1)

\* for key in (...): val = rec.get(key); if isinstance(val, str) and
\* val.strip(): return val
RECURSIVE ProbeGet(_, _)
ProbeGet(rec, i) ==
    IF i > Len(FieldKeys) THEN PyNone
    ELSE LET val == Get(rec, FieldKeys[i])
         IN IF AcceptVal(val) THEN val ELSE ProbeGet(rec, i + 1)

\* Variant: the field names form the outer loop and the items the inner one.
ScanListKeyMajor(lst, j) ==
    LET hit(i) == {n \in 1..Len(lst.items) :
                      IsDict(lst.items[n]) /\ AcceptVal(Get(lst.items[n], FieldKeys[i]))}
        keys == {i \in 1..Len(FieldKeys) : hit(i) # {}}
    IN IF keys = {} THEN PyNone
       ELSE LET i == CHOOSE x \in keys : \A y \in keys : x <= y
                n == CHOOSE x \in hit(i) : \A y \in hit(i) : x <= y
            IN Get(lst.items[n], FieldKeys[i])

\* for item in lst: if isinstance(item, dict): <probe item, return on a hit>
RECURSIVE ScanList(_, _)
ScanList(lst, j) ==
    IF j > Len(lst.items) THEN PyNone
    ELSE LET item == lst.items[j]
             hit == IF IsDict(item) THEN ProbeGet(item, 1) ELSE PyNone
         IN IF hit # PyNone THEN hit ELSE ScanList(lst, j + 1)

\* 3) 'document' then 'documents'
ProbeDocuments(doc) ==
    LET document == Get(doc, "document")
        hitd == IF IsDict(document) THEN ProbeGet(document, 1) ELSE PyNone
        documents == Get(doc, "documents")
    IN IF hitd # PyNone THEN hitd
       ELSE IF IsList(documents) THEN ScanList(documents, 1) ELSE PyNone

\* 2) 'data' as a dict, then 'data' as a list
ProbeData(doc) ==
    LET data == Get(doc, "data")
        hitd == IF IsDict(data) THEN ProbeGet(data, 1) ELSE PyNone
    IN IF hitd # PyNone THEN hitd
       ELSE IF IsList(data) THEN ScanList(data, 1) ELSE PyNone

extract_text_from_firecrawl(doc) ==
    IF ~IsDict(doc) THEN PyNone
    ELSE LET top == ProbeDirect(doc, 1)
         IN IF top # PyNone THEN top
            ELSE LET d == ProbeData(doc)
                 IN IF d # PyNone THEN d ELSE ProbeDocuments(doc)

\* Variant: repr(doc) instead of str(doc).
FallbackRepr(doc) == PyStr(Repr(doc))

\* scrape_blog, after firecrawl.scrape returned doc:
\*   content = _extract_text_from_firecrawl(doc)
\*   if not content: content = str(doc)
Fallback(doc) == PyStr(PyStrOf(doc))

\* if not content: content = str(doc); return content
ContentOrFallback(doc, found) == IF ~Truthy(found) THEN Fallback(doc) ELSE found

scrape_blog(doc) == ContentOrFallback(doc, extract_text_from_firecrawl(doc))

\* ------------------------------------------------------------------------
\* Scrape responses: what firecrawl.scrape may return.  A response holds at
\* most MaxFields populated places (fields, list items, non-record values);
\* lists hold at most MaxList items.
\* ------------------------------------------------------------------------

\* Field values: empty, whitespace-only, plain, padded text, and a non-text value.
LeafVals ==
    {PyStr(<<>>), PyStr(<<" ">>), PyStr(<<"a">>), PyStr(<<" ", "b">>), PyInt(<<"1">>)}

\* A value that is neither a record nor a list: text where a record is expected.
NonRecVals == {PyStr(<<"a">>)}

\* Entry sequences over the recognized keys FieldKeys[i..], exactly w fields.
RECURSIVE RecsFrom(_, _)
RecsFrom(i, w) ==
    IF w = 0 THEN {<<>>}
    ELSE IF i > Len(FieldKeys) THEN {}
    ELSE RecsFrom(i + 1, w)
         \cup {<<Entry(FieldKeys[i], v)>> \o r : v \in LeafVals, r \in RecsFrom(i + 1, w - 1)}

\* List items of weight w: a record with w fields, or (weight 1) an empty
\* record or a non-record value.
ItemsExact(w) ==
    {PyDict(r) : r \in RecsFrom(1, w)}
    \cup (IF w = 1 THEN {PyDict(<<>>)} \cup NonRecVals ELSE {})

\* Lists of at most n items of total weight exactly b.
RECURSIVE ListsExact(_, _)
ListsExact(b, n) ==
    IF b = 0 THEN {<<>>}
    ELSE IF n = 0 THEN {}
    ELSE UNION {{<<it>> \o rest : it \in ItemsExact(w), rest \in ListsExact(b - w, n - 1)}
                : w \in 1..b}

\* The key is absent from the response.
Absent == [t |-> "absent", s |-> <<>>, items |-> <<>>]

\* What a container key (data, document, documents) holds, by weight.
ContExact(b) ==
    IF b = 0 THEN {Absent}
    ELSE {PyDict(r) : r \in RecsFrom(1, b)}
         \cup {PyList(l) : l \in ListsExact(b, MaxList)}
         \cup (IF b = 1 THEN {PyDict(<<>>), PyList(<<>>)} \cup NonRecVals ELSE {})

OptEntry(k, v) == IF v = Absent THEN <<>> ELSE <<Entry(k, v)>>

MkDoc(top, data, document, documents, other) ==
    PyDict(top \o OptEntry("data", data) \o OptEntry("document", document)
           \o OptEntry("documents", documents) \o OptEntry("unrelated", other))

\* {"unrelated": 123}: a key the extractor does not know (weight 1).
OtherExact(u) == IF u = 0 THEN {Absent} ELSE {PyInt(<<"1", "2", "3">>)}

Splits ==
    {sp \in [1..5 -> 0..MaxFields] :
        /\ sp[1] + sp[2] + sp[3] + sp[4] + sp[5] <= MaxFields
        /\ sp[5] <= 1}

\* Responses that are not records.
NonRecordDocs ==
    {PyNone, PyStr(<<>>), PyStr(<<" ">>), PyStr(<<"a">>), PyInt(<<"0">>), PyList(<<>>),
     PyList(<<PyDict(<<Entry("markdown", PyStr(<<"a">>))>>)>>)}

\* ------------------------------------------------------------------------
\* State
\* ------------------------------------------------------------------------

VARIABLES
    doc,            \* scrape_blog: the value firecrawl.scrape returned
    extracted,      \* scrape_blog: what _extract_text_from_firecrawl returned
    content,        \* scrape_blog: the value returned
    xpc,            \* scrape_blog: "called" | "returned"
    openai_key,     \* sidebar text input
    elevenlabs_key, \* sidebar text input
    firecrawl_key,  \* sidebar text input
    url,            \* "Enter Blog URL:" text input
    environ,        \* os.environ: OPENAI_API_KEY, FIRECRAWL_API_KEY
    pc,             \* where the script run stands
    state,          \* the PodcastState the graph run carries (None: no run)
    summary,        \* local `summary` (None: not assigned)
    stream,         \* the chunks audio_generator has yielded, in order
    audio_chunks,   \* local `audio_chunks`
    audio_bytes,    \* local `audio_bytes` (None: not assigned)
    ui,             \* the elements shown to the user, in order
    calls,          \* the collaborator calls made in this run, in order
    raised          \* where an exception was raised in this run ("none": nowhere)

xvars == <<doc, extracted, content, xpc>>

widgets == <<openai_key, elevenlabs_key, firecrawl_key, url>>

locals == <<summary, stream, audio_chunks, audio_bytes>>

pvars == <<widgets, environ, pc, state, locals, ui, calls, raised>>

vars == <<xvars, pvars>>

\* ------------------------------------------------------------------------
\* The script: widgets, the Generate button, the graph, the audio, the results
\* ------------------------------------------------------------------------

\* What is typed into a key field, and into the URL field.
KeyTexts == {<<>>, <<"k">>}

UrlTexts == {<<>>, <<" ">>, <<"u">>, <<" ", "u">>}

\* What firecrawl.scrape returns in a run.
ScrapeDocs ==
    {PyDict(<<Entry("markdown", PyStr(<<"a">>))>>),
     PyDict(<<Entry("data", PyList(<<PyDict(<<Entry("text", PyStr(<<>>))>>),
                                    PyDict(<<Entry("content", PyStr(<<" ", "b">>))>>)>>))>>),
     PyDict(<<Entry("documents", PyList(<<PyDict(<<Entry("pageContent", PyStr(<<"a">>))>>)>>))>>),
     PyDict(<<Entry("unrelated", PyInt(<<"1", "2", "3">>))>>),
     PyNone,
     PyStr(<<>>)}

\* response.content of the language model.
LlmContents == {PyStr(<<>>), PyStr(<<"H", "i">>)}

\* What the TTS generator yields.
Chunks == {PyNone, PyBytes(<<>>), PyBytes(<<"A", "B">>), PyBytes(<<"C", "D">>)}

\* An element on the page.
Elem(kind, v) == [kind |-> kind, v |-> v]

\* Variant: the ElevenLabs key is left out of the test.
ButtonEnabledNoEleven(ok, ek, fk) == ok # <<>> /\ fk # <<>>

\* disabled=not all([openai_key, elevenlabs_key, firecrawl_key])
ButtonEnabled(ok, ek, fk) == ok # <<>> /\ ek # <<>> /\ fk # <<>>

\* url.strip() is truthy
UrlGiven(u) == Strip(u) # <<>>

\* LangGraph: a node's return value is merged into the state, key by key.
RECURSIVE SetKey(_, _, _, _)
SetKey(entries, k, v, i) ==
    IF i > Len(entries) THEN <<Entry(k, v)>>
    ELSE IF entries[i].k = k THEN <<Entry(k, v)>> \o SubSeq(entries, i + 1, Len(entries))
    ELSE <<entries[i]>> \o SetKey(entries, k, v, i + 1)

RECURSIVE MergeFrom(_, _, _)
MergeFrom(st, update, i) ==
    IF i > Len(update.items) THEN st
    ELSE MergeFrom(PyDict(SetKey(st.items, update.items[i].k, update.items[i].v, 1)),
                   update, i + 1)

\* Variant: the node's return value replaces the state.
MergeReplace(st, update) == update

Merge(st, update) == MergeFrom(st, update, 1)

\* graph_builder.set_entry_point("scrape")
EntryPoint == "scrape"

\* graph_builder.add_edge("scrape", "summarize"); add_edge("summarize", END)
Edge(node) == IF node = "scrape" THEN "summarize" ELSE "END"

\* Variant: the failing step is run again.
PropagateRetry(at) == at

\* An exception leaves the try block: nothing in the graph or after it
\* catches it, the next statement run is the except clause.
Propagate(at) == "except"

\* Variant: the exception is swallowed.
ShowErrorSilent(page) == page

\* st.error(f"Error: {e}")
ShowError(page) == Append(page, Elem("error", PyNone))

\* Variant: an empty summary is reported as a generic error.
ShowFailedAsError(page) == Append(page, Elem("error", PyNone))

\* st.error("Failed to generate summary")
ShowFailed(page) == Append(page, Elem("failed", PyNone))

\* Variant: the summary is not tested.
HasSummaryAlways(s) == TRUE

\* if summary:
HasSummary(s) == Truthy(s)

\* final_state.get("summary", "")
FinalSummary(final_state) ==
    IF HasKey(final_state, "summary") THEN Lookup(final_state, "summary") ELSE PyStr(<<>>)

\* Variant: the chunk is put in front.
AppendChunkFront(chunks, chunk) == IF Truthy(chunk) THEN <<chunk>> \o chunks ELSE chunks

\* if chunk: audio_chunks.append(chunk)
AppendChunk(chunks, chunk) == IF Truthy(chunk) THEN Append(chunks, chunk) ELSE chunks

\* b"".join(audio_chunks)
RECURSIVE JoinFrom(_, _)
JoinFrom(chunks, i) ==
    IF i > Len(chunks) THEN <<>> ELSE chunks[i].s \o JoinFrom(chunks, i + 1)

Join(chunks) == PyBytes(JoinFrom(chunks, 1))

NoLocals ==
    /\ summary = PyNone
    /\ stream = <<>>
    /\ audio_chunks = <<>>
    /\ audio_bytes = PyNone

InitRun ==
    /\ pc = "idle"
    /\ state = PyNone
    /\ NoLocals
    /\ ui = <<>>
    /\ calls = <<>>
    /\ raised = "none"

InitPipeline ==
    /\ openai_key = <<>> /\ elevenlabs_key = <<>> /\ firecrawl_key = <<>>
    /\ url = <<>>
    /\ environ = [OPENAI_API_KEY |-> <<>>, FIRECRAWL_API_KEY |-> <<>>]
    /\ InitRun

\* The state of scrape_blog taken alone, outside a script run.
InitScrapeBlog ==
    /\ doc = PyNone
    /\ extracted = PyNone
    /\ content = PyNone
    /\ xpc = "idle"

Init == InitScrapeBlog /\ InitPipeline

\* The user fills the key fields and the URL field.
EditWidgets ==
    /\ pc = "idle"
    /\ openai_key' \in KeyTexts
    /\ elevenlabs_key' \in KeyTexts
    /\ firecrawl_key' \in KeyTexts
    /\ url' \in UrlTexts
    /\ UNCHANGED <<xvars, environ, pc, state, locals, ui, calls, raised>>

\* The button is pressed (it can be only when enabled): a blank URL gets the
\* warning; otherwise the keys go to os.environ, the graph is built and
\* graph.invoke({"url": url}) enters the entry point.
GenerateClicked ==
    /\ pc = "idle"
    /\ ButtonEnabled(openai_key, elevenlabs_key, firecrawl_key)
    /\ IF ~UrlGiven(url)
       THEN /\ ui' = Append(ui, Elem("warning", PyNone))
            /\ pc' = "warned"
            /\ UNCHANGED <<environ, state>>
       ELSE /\ environ' = [OPENAI_API_KEY |-> openai_key,
                           FIRECRAWL_API_KEY |-> firecrawl_key]
            /\ state' = PyDict(<<Entry("url", PyStr(url))>>)
            /\ pc' = EntryPoint
            /\ UNCHANGED ui
    /\ UNCHANGED <<xvars, widgets, locals, calls, raised>>

\* except Exception as e: st.error(f"Error: {e}")
Except(src) ==
    /\ raised' = src
    /\ pc' = Propagate(pc)
    /\ UNCHANGED <<xvars, widgets, environ, state, locals, ui>>

ExceptClause ==
    /\ pc = "except"
    /\ ui' = ShowError(ui)
    /\ pc' = "done"
    /\ UNCHANGED <<xvars, widgets, environ, state, locals, calls, raised>>

\* The button is pressed and, the keys stored in os.environ, building the
\* model client or the graph raises.
SetupRaise ==
    /\ pc = "idle"
    /\ ButtonEnabled(openai_key, elevenlabs_key, firecrawl_key)
    /\ UrlGiven(url)
    /\ environ' = [OPENAI_API_KEY |-> openai_key, FIRECRAWL_API_KEY |-> firecrawl_key]
    /\ raised' = "setup"
    /\ pc' = Propagate(pc)
    /\ UNCHANGED <<xvars, widgets, state, locals, ui, calls>>

\* scrape_node: scrape_blog(state["url"]) returns; {"blog_content": content}
\* is merged into the state.
ScrapeNodeReturn ==
    /\ pc = "scrape"
    /\ environ.FIRECRAWL_API_KEY # <<>>
    /\ HasKey(state, "url")
    /\ calls' = Append(calls, "scrape")
    /\ \E d \in ScrapeDocs :
          state' = Merge(state, PyDict(<<Entry("blog_content", scrape_blog(d))>>))
    /\ pc' = Edge("scrape")
    /\ UNCHANGED <<xvars, widgets, environ, locals, ui, raised>>

\* scrape_node raises: state["url"] is missing or FIRECRAWL_API_KEY is not
\* set (both before any call), or firecrawl.scrape fails.
ScrapeNodeRaise ==
    /\ pc = "scrape"
    /\ calls' = IF HasKey(state, "url") /\ environ.FIRECRAWL_API_KEY # <<>>
                THEN Append(calls, "scrape") ELSE calls
    /\ Except("scrape")

\* summarize_node: llm.invoke(prompt) returns; {"summary": response.content}
\* is merged into the state.
SummarizeNodeReturn ==
    /\ pc = "summarize"
    /\ HasKey(state, "blog_content")
    /\ calls' = Append(calls, "llm")
    /\ \E c \in LlmContents :
          state' = Merge(state, PyDict(<<Entry("summary", c)>>))
    /\ pc' = Edge("summarize")
    /\ UNCHANGED <<xvars, widgets, environ, locals, ui, raised>>

\* summarize_node raises: state["blog_content"] is missing (before the
\* call), or llm.invoke fails.
SummarizeNodeRaise ==
    /\ pc = "summarize"
    /\ calls' = IF HasKey(state, "blog_content") THEN Append(calls, "llm") ELSE calls
    /\ Except("llm")

\* graph.invoke returns the final state; summary = final_state.get("summary", "");
\* if summary: ... else: st.error("Failed to generate summary")
GraphReturn ==
    /\ pc = "END"
    /\ summary' = FinalSummary(state)
    /\ IF HasSummary(summary')
       THEN pc' = "convert" /\ UNCHANGED ui
       ELSE pc' = "done" /\ ui' = ShowFailed(ui)
    /\ UNCHANGED <<xvars, widgets, environ, state, stream, audio_chunks, audio_bytes, calls, raised>>

\* client.text_to_speech.convert(text=summary, ...) returns the generator.
ConvertReturn ==
    /\ pc = "convert"
    /\ calls' = Append(calls, "tts")
    /\ audio_chunks' = <<>>
    /\ pc' = "stream"
    /\ UNCHANGED <<xvars, widgets, environ, state, summary, stream, audio_bytes, ui, raised>>

ConvertRaise ==
    /\ pc = "convert"
    /\ calls' = Append(calls, "tts")
    /\ Except("tts")

\* for chunk in audio_generator: if chunk: audio_chunks.append(chunk)
StreamChunk ==
    /\ pc = "stream"
    /\ Len(stream) < MaxChunks
    /\ \E chunk \in Chunks :
          /\ stream' = Append(stream, chunk)
          /\ audio_chunks' = AppendChunk(audio_chunks, chunk)
    /\ UNCHANGED <<xvars, widgets, environ, pc, state, summary, audio_bytes, ui, calls, raised>>

\* The generator is exhausted: audio_bytes = b"".join(audio_chunks)
StreamEnd ==
    /\ pc = "stream"
    /\ audio_bytes' = Join(audio_chunks)
    /\ pc' = "show_success"
    /\ UNCHANGED <<xvars, widgets, environ, state, summary, stream, audio_chunks, ui, calls, raised>>

\* The generator raises while it is iterated.
StreamRaise ==
    /\ pc = "stream"
    /\ UNCHANGED calls
    /\ Except("tts")

\* st.success("Podcast generated!")
ShowSuccess ==
    /\ pc = "show_success"
    /\ ui' = Append(ui, Elem("success", PyNone))
    /\ pc' = "show_audio"
    /\ UNCHANGED <<xvars, widgets, environ, state, locals, calls, raised>>

\* st.audio(audio_bytes, format="audio/mp3")
ShowAudio ==
    /\ pc = "show_audio"
    /\ ui' = Append(ui, Elem("audio", audio_bytes))
    /\ pc' = "show_download"
    /\ UNCHANGED <<xvars, widgets, environ, state, locals, calls, raised>>

\* st.download_button("Download Podcast", audio_bytes, "podcast.mp3", "audio/mp3")
ShowDownload ==
    /\ pc = "show_download"
    /\ ui' = Append(ui, Elem("download", audio_bytes))
    /\ pc' = "show_summary"
    /\ UNCHANGED <<xvars, widgets, environ, state, locals, calls, raised>>

\* with st.expander("Podcast Summary"): st.write(summary)
ShowSummary ==
    /\ pc = "show_summary"
    /\ ui' = Append(ui, Elem("summary", summary))
    /\ pc' = "done"
    /\ UNCHANGED <<xvars, widgets, environ, state, locals, calls, raised>>

\* One of the four calls that show the results raises.
ShowRaise ==
    /\ pc \in {"show_success", "show_audio", "show_download", "show_summary"}
    /\ UNCHANGED calls
    /\ Except("display")

\* The script run is over; the next one starts from scratch (the widgets and
\* os.environ keep their values).
Rerun ==
    /\ pc \in {"done", "warned"}
    /\ pc' = "idle"
    /\ state' = PyNone
    /\ summary' = PyNone
    /\ stream' = <<>>
    /\ audio_chunks' = <<>>
    /\ audio_bytes' = PyNone
    /\ ui' = <<>>
    /\ calls' = <<>>
    /\ raised' = "none"
    /\ UNCHANGED <<xvars, widgets, environ>>

Next ==
    \/ EditWidgets
    \/ GenerateClicked
    \/ SetupRaise
    \/ ScrapeNodeReturn
    \/ ScrapeNodeRaise
    \/ SummarizeNodeReturn
    \/ SummarizeNodeRaise
    \/ GraphReturn
    \/ ConvertReturn
    \/ ConvertRaise
    \/ StreamChunk
    \/ StreamEnd
    \/ StreamRaise
    \/ ShowSuccess
    \/ ShowAudio
    \/ ShowDownload
    \/ ShowSummary
    \/ ShowRaise
    \/ ExceptClause
    \/ Rerun

Spec == Init /\ [][Next]_vars

\* ------------------------------------------------------------------------
\* scrape_blog on every response: the extractor and the fallback
\* ------------------------------------------------------------------------

InitExtract ==
    /\ \/ \E sp \in Splits :
            \E top \in RecsFrom(1, sp[1]), da \in ContExact(sp[2]),
               dc \in ContExact(sp[3]), ds \in ContExact(sp[4]),
               ot \in OtherExact(sp[5]) : doc = MkDoc(top, da, dc, ds, ot)
       \/ doc \in NonRecordDocs
    /\ extracted = PyNone
    /\ content = PyNone
    /\ xpc = "called"
    /\ InitPipeline

ScrapeBlogReturn ==
    /\ xpc = "called"
    /\ extracted' = extract_text_from_firecrawl(doc)
    /\ content' = ContentOrFallback(doc, extracted')
    /\ xpc' = "returned"
    /\ UNCHANGED <<doc, pvars>>

NextExtract == ScrapeBlogReturn

SpecExtract == InitExtract /\ [][NextExtract]_vars

\* ------------------------------------------------------------------------
\* The extractor's contract, stated over the response alone
\* ------------------------------------------------------------------------

\* Textual and not empty after trimming: some character is not whitespace.
Acceptable(v) == v.t = "str" /\ \E i \in 1..Len(v.s) : ~IsSpace(v.s[i])

\* The values a record holds under markdown, content, text, pageContent, in
\* that order (None where the name is absent).
RecCands(v) ==
    IF v.t = "dict" THEN [i \in 1..Len(FieldKeys) |-> Get(v, FieldKeys[i])] ELSE <<>>

\* The candidates of a list: those of its records, in list order.
RECURSIVE ListCandsFrom(_, _)
ListCandsFrom(v, j) ==
    IF v.t # "list" \/ j > Len(v.items) THEN <<>>
    ELSE RecCands(v.items[j]) \o ListCandsFrom(v, j + 1)

\* All candidates of a record response, in the priority order.
Candidates(d) ==
    RecCands(d)
    \o RecCands(Get(d, "data"))
    \o ListCandsFrom(Get(d, "data"), 1)
    \o RecCands(Get(d, "document"))
    \o ListCandsFrom(Get(d, "documents"), 1)

HasAcceptable(d) ==
    /\ d.t = "dict"
    /\ LET c == Candidates(d) IN \E i \in 1..Len(c) : Acceptable(c[i])

\* The first acceptable element of a sequence that holds one.
RECURSIVE FirstFrom(_, _)
FirstFrom(c, i) == IF Acceptable(c[i]) THEN c[i] ELSE FirstFrom(c, i + 1)

FirstAcceptable(d) == FirstFrom(Candidates(d), 1)

\* C2: for a record response the extractor returns, unchanged, the first
\* acceptable candidate in the priority order top level, data record, data
\* list, document, documents list, the field names tried in the order
\* markdown, content, text, pageContent.
C2_FirstCandidateWins ==
    (xpc = "returned" /\ HasAcceptable(doc)) => extracted = FirstAcceptable(doc)

\* A list under data whose first item only has an empty text and whose
\* second item wins, returned with its leading blank.
C2_Witness ==
    /\ xpc = "returned"
    /\ IsDict(doc) /\ IsList(Get(doc, "data")) /\ Len(Get(doc, "data").items) = 2
    /\ Get(Get(doc, "data").items[1], "text") = PyStr(<<>>)
    /\ Get(Get(doc, "data").items[2], "content") = PyStr(<<" ", "b">>)
    /\ extracted = PyStr(<<" ", "b">>)

\* C3: the extractor returns None exactly when the response is not a record
\* or no candidate is acceptable, and never returns blank text; items of a
\* list that are not records do not stop the scan.
C3_NotFoundExactly ==
    xpc = "returned" =>
        /\ extracted = PyNone <=> ~HasAcceptable(doc)
        /\ extracted # PyNone => Acceptable(extracted)

\* A record whose only candidate is whitespace, behind a list item that is
\* not a record: nothing is found.
C3_Witness ==
    /\ xpc = "returned"
    /\ IsDict(doc) /\ IsList(Get(doc, "documents"))
    /\ Len(Get(doc, "documents").items) = 2
    /\ ~IsDict(Get(doc, "documents").items[1])
    /\ Get(Get(doc, "documents").items[2], "text") = PyStr(<<" ">>)
    /\ extracted = PyNone

\* C4 as stated: whenever the extractor finds nothing, scrape_blog returns
\* the stringified response and that text is not empty.
C4_FallbackNonEmpty ==
    (xpc = "returned" /\ extracted = PyNone) =>
        (content = PyStr(PyStrOf(doc)) /\ content.s # <<>>)

\* C4 amended: whenever the extractor finds nothing, scrape_blog returns the
\* stringified response; that text is empty only when the response is the
\* empty string itself, so it is never empty for a record, a list, None or a
\* number.
C4_FallbackStringified ==
    (xpc = "returned" /\ extracted = PyNone) =>
        /\ content = PyStr(PyStrOf(doc))
        /\ content.s = <<>> <=> doc = PyStr(<<>>)
        /\ doc.t \in {"dict", "list", "none", "int"} => content.s # <<>>

\* {"unrelated": 123}: nothing found, the stringified record is returned.
C4_Witness ==
    /\ xpc = "returned"
    /\ doc = PyDict(<<Entry("unrelated", PyInt(<<"1", "2", "3">>))>>)
    /\ extracted = PyNone
    /\ content = PyStr(<<"{", "'", "unrelated", "'", ":", " ", "1", "2", "3", "}">>)

\* ------------------------------------------------------------------------
\* The pipeline's contract
\* ------------------------------------------------------------------------

Range(f) == {f[i] : i \in DOMAIN f}

Count(f, x) == Cardinality({i \in DOMAIN f : f[i] = x})

Kinds(page) == {page[i].kind : i \in DOMAIN page}

Collaborators == {"scrape", "llm", "tts"}

\* This step calls collaborator c.
Invoked(c) == Len(calls') = Len(calls) + 1 /\ calls'[Len(calls')] = c

\* The three outcomes a run can show.
OutcomeSuccess == {"audio", "summary"} \subseteq Kinds(ui)

OutcomeFailed == "failed" \in Kinds(ui)

OutcomeError == "error" \in Kinds(ui)

NumOutcomes ==
    (IF OutcomeSuccess THEN 1 ELSE 0) + (IF OutcomeFailed THEN 1 ELSE 0)
    + (IF OutcomeError THEN 1 ELSE 0)

\* C1: the language model is called only once the scrape stage has written
\* blog_content, and the TTS service only once the summarize stage has
\* written a non-empty summary, whatever the collaborators return.
C1_PipelineOrder ==
    [][/\ Invoked("llm") =>
            /\ HasKey(state, "blog_content")
            /\ calls = <<"scrape">>
       /\ Invoked("tts") =>
            /\ HasKey(state, "summary") /\ Get(state, "summary").s # <<>>
            /\ calls = <<"scrape", "llm">>]_vars

\* All three collaborators were called, the scraper having returned an empty
\* string.
C1_Witness ==
    /\ calls = <<"scrape", "llm", "tts">>
    /\ Get(state, "blog_content") = PyStr(<<>>)

SummarizeCompleted == "llm" \in Range(calls) /\ raised # "llm"

EmptySummary == ~HasKey(state, "summary") \/ Get(state, "summary").s = <<>>

\* C5: when the summarize stage completed and the summary is empty or
\* absent, the TTS service is never called and the run ends showing
\* "Failed to generate summary" alone.
C5_EmptySummarySkipsTts ==
    (SummarizeCompleted /\ EmptySummary) =>
        /\ "tts" \notin Range(calls)
        /\ pc \in {"END", "done"}
        /\ pc = "done" => ui = <<Elem("failed", PyNone)>>

C5_Witness ==
    /\ pc = "done"
    /\ SummarizeCompleted
    /\ Get(state, "summary") = PyStr(<<>>)
    /\ OutcomeFailed

\* C6: a run that was triggered never shows two of the outcomes success
\* (audio and summary shown), "Failed to generate summary" and "Error: ...",
\* and when it is over it shows exactly one of them, each at most once.
C6_ExactlyOneOutcome ==
    pc \notin {"idle", "warned"} =>
        /\ NumOutcomes <= 1
        /\ pc = "done" => NumOutcomes = 1
        /\ \A k \in {"audio", "summary", "failed", "error"} :
              Cardinality({i \in DOMAIN ui : ui[i].kind = k}) <= 1

\* The run ended in an exception raised after the success notice and the
\* audio player were shown.
C6_Witness ==
    /\ pc = "done"
    /\ raised = "display"
    /\ {"success", "audio"} \subseteq Kinds(ui)
    /\ OutcomeError

CollabFailed == raised \in Collaborators

\* C7: each collaborator is called at most once in a run; once one has
\* raised, no collaborator is called again in that run, no later stage is
\* started, no audio and no summary is shown, and the run ends showing the
\* error message alone.
C7_FailureAborts ==
    [][/\ \A c \in Collaborators : Count(calls', c) <= 1
       /\ CollabFailed' =>
            /\ pc' \in {"except", "done"}
            /\ Kinds(ui') \subseteq {"error"}
            /\ pc' = "done" => ui' = <<Elem("error", PyNone)>>
       /\ (CollabFailed /\ pc' # "idle") => (calls' = calls /\ raised' = raised)]_vars

\* The TTS generator raised after chunks had arrived; only the error is shown.
C7_Witness ==
    /\ pc = "done"
    /\ raised = "tts"
    /\ audio_chunks # <<>>
    /\ ui = <<Elem("error", PyNone)>>

\* The bytes of the chunks that are neither None nor empty, in arrival order.
RECURSIVE KeptBytes(_, _)
KeptBytes(chunks, i) ==
    IF i > Len(chunks) THEN <<>>
    ELSE (IF chunks[i].t = "bytes" /\ Len(chunks[i].s) > 0 THEN chunks[i].s ELSE <<>>)
         \o KeptBytes(chunks, i + 1)

\* C8: the assembled audio, and the audio shown and offered for download, is
\* the concatenation in arrival order of exactly the chunks of the stream
\* that are neither None nor empty.
C8_ChunkAssembly ==
    /\ audio_bytes # PyNone => audio_bytes = PyBytes(KeptBytes(stream, 1))
    /\ \A i \in DOMAIN ui :
          ui[i].kind \in {"audio", "download"} => ui[i].v = PyBytes(KeptBytes(stream, 1))

\* [b"AB", None, b"CD", b""] assembles to b"ABCD".
C8_Witness ==
    /\ stream = <<PyBytes(<<"A", "B">>), PyNone, PyBytes(<<"C", "D">>), PyBytes(<<>>)>>
    /\ audio_bytes = PyBytes(<<"A", "B", "C", "D">>)

\* C9: a run is under way, or a collaborator has been called, only if the
\* three keys are present and the URL has a character that is not
\* whitespace; a click with a blank URL calls nothing.
C9_Gate ==
    /\ (pc \notin {"idle", "warned"} \/ calls # <<>> \/ state # PyNone) =>
          /\ openai_key # <<>> /\ elevenlabs_key # <<>> /\ firecrawl_key # <<>>
          /\ \E i \in DOMAIN url : ~IsSpace(url[i])
    /\ pc = "warned" => (calls = <<>> /\ state = PyNone)

\* The button was pressed with all keys and a whitespace-only URL.
C9_Witness ==
    /\ pc = "warned"
    /\ url = <<" ">>
    /\ calls = <<>>

Fields(st) == {st.items[i].k : i \in DOMAIN st.items}

\* The field a stage may write.
Writes(at) ==
    IF at = "scrape" THEN {"blog_content"}
    ELSE IF at = "summarize" THEN {"summary"} ELSE {}

\* C10: the state of a run starts with url alone; within the run every field
\* keeps its value once set, the scrape stage adds only blog_content and the
\* summarize stage only summary, and summary is present only with
\* blog_content.
C10_WriteOnce ==
    [][/\ (state = PyNone /\ state' # PyNone) =>
            state' = PyDict(<<Entry("url", PyStr(url))>>)
       /\ (state # PyNone /\ state' # PyNone) =>
            /\ \A k \in Fields(state) :
                  k \in Fields(state') /\ Get(state', k) = Get(state, k)
            /\ (Fields(state') \ Fields(state)) \subseteq Writes(pc)
       /\ HasKey(state', "summary") => HasKey(state', "blog_content")
       /\ Len(state'.items) = Cardinality(Fields(state'))]_vars

C10_Witness ==
    /\ pc = "done"
    /\ Fields(state) = {"url", "blog_content", "summary"}
    /\ Get(state, "url") = PyStr(url)

====
